---- MODULE Spec2Model ----
(***************************************************************************)
(* Model of run_deep_research.py: the driver main() and the two pipelines  *)
(* run_perplexity_research() (one blocking HTTP call) and                  *)
(* run_gemini_research() (create a background interaction, then poll).     *)
(* The two providers, the pip installer and the client library are the     *)
(* environment: every answer they can give is a nondeterministic input.    *)
(***************************************************************************)
EXTENDS Integers, Sequences, FiniteSets, TLC

(* ----------------------------- bounds ---------------------------------- *)
MaxSources == 2
MaxOutputs == 2
MaxPolls == 3

(* ------------------------ values of the environment --------------------- *)
\* os.getenv gives None for an unset variable, else the string
NoneKey == "<None>"
KeyValues == {NoneKey, "", "secret"}

\* bool(x) of an environment string or None
KeyEmptyIsPresent(k) == k # NoneKey
Truthy(k) == k # NoneKey /\ k # ""

\* final HTTP status codes requests can hand back
StatusCodes == {200, 204, 300, 404, 503}

\* requests.Response.raise_for_status: HTTPError for 4xx and 5xx
RaisesForStatus(code) == 400 <= code /\ code < 600

Titles == {"T1"}
Urls == {"U1"}
Contents == {"c1"}
Texts == {"REPORT", "notes"}

\* one element of search_results: a JSON object whose keys may be missing
Sources == [hasTitle : {FALSE}, title : {""}, hasUrl : {FALSE}, url : {""}]
    \cup [hasTitle : {TRUE}, title : Titles, hasUrl : {FALSE}, url : {""}]
    \cup [hasTitle : {FALSE}, title : {""}, hasUrl : {TRUE}, url : Urls]
    \cup [hasTitle : {TRUE}, title : Titles, hasUrl : {TRUE}, url : Urls]

\* one element of choices
Choices == [hasMessage : {FALSE}, hasContent : {FALSE}, content : {""}]
    \cup [hasMessage : {TRUE}, hasContent : {FALSE}, content : {""}]
    \cup [hasMessage : {TRUE}, hasContent : {TRUE}, content : Contents]

SeqUpTo(S, n) == UNION {[1..k -> S] : k \in 0..n}

\* a decoded JSON object body of provider A
EmptyBody == [hasChoices |-> FALSE, choices |-> <<>>, hasUsage |-> FALSE,
              hasSearchResults |-> FALSE, search_results |-> <<>>]
Bodies == [hasChoices : {FALSE}, choices : {<<>>}, hasUsage : BOOLEAN,
           hasSearchResults : {FALSE}, search_results : {<<>>}]
    \cup [hasChoices : {TRUE}, choices : SeqUpTo(Choices, 1), hasUsage : BOOLEAN,
          hasSearchResults : {FALSE}, search_results : {<<>>}]
    \cup [hasChoices : {FALSE}, choices : {<<>>}, hasUsage : BOOLEAN,
          hasSearchResults : {TRUE}, search_results : SeqUpTo(Sources, MaxSources)]
    \cup [hasChoices : {TRUE}, choices : SeqUpTo(Choices, 1), hasUsage : BOOLEAN,
          hasSearchResults : {TRUE}, search_results : SeqUpTo(Sources, MaxSources)]

(* ------------------- run_perplexity_research: pure parts ---------------- *)
\* result.get("choices", [{}]) : the list whose element 0 is taken
ChoicesOrDefault(result) ==
    IF result.hasChoices THEN result.choices
    ELSE <<[hasMessage |-> FALSE, hasContent |-> FALSE, content |-> ""]>>

\* [0] on an empty list raises IndexError
ExtractRaises(result) == Len(ChoicesOrDefault(result)) = 0

\* ....get("message", {}).get("content", "")
ExtractContent(result) ==
    LET first == ChoicesOrDefault(result)[1]
    IN IF first.hasMessage /\ first.hasContent THEN first.content ELSE ""

\* result.get("search_results", [])
ExtractSearchResults(result) ==
    IF result.hasSearchResults THEN result.search_results ELSE <<>>

\* usage.get('prompt_tokens', 'N/A') with usage = result.get("usage", {})
PrintedPromptTokens(result) == IF result.hasUsage THEN "42" ELSE "N/A"

\* a line of plain text of a report
TextLine(t) == [num |-> 0, text |-> t, url |-> ""]

\* f"{i}. [{source.get('title', 'Untitled')}]({source.get('url', '')})\n"
SourceLine(i, source) ==
    [num |-> i,
     text |-> IF source.hasTitle THEN source.title ELSE "Untitled",
     url |-> IF source.hasUrl THEN source.url ELSE ""]

\* for i, source in enumerate(search_results, 1): report_content += ...
SourceListReversed(search_results) ==
    [i \in 1..Len(search_results) |->
        SourceLine(i, search_results[Len(search_results) + 1 - i])]
SourceList(search_results) ==
    [i \in 1..Len(search_results) |-> SourceLine(i, search_results[i])]

PerplexityHeader ==
    <<TextLine("# Perplexity Deep Research Report"),
      TextLine("## AI Regulation Comparison (EU, US, UK, Canada)"),
      TextLine("*Generated: <time>*"),
      TextLine("---")>>

\* the f-string of lines 83-96 followed by the loop of lines 97-98
PerplexityReport(content, search_results) ==
    PerplexityHeader
    \o <<TextLine(content), TextLine("---"), TextLine("## Sources")>>
    \o SourceList(search_results)

\* bool(result) of the dict returned by run_perplexity_research
DictTruthy(result) ==
    result.hasChoices \/ result.hasUsage \/ result.hasSearchResults

(* -------------------- run_gemini_research: pure parts ------------------- *)
Terminal == {"completed", "failed"}
Statuses == {"in_progress", "requires_action", "completed", "failed"}

\* interaction.outputs[-1].text if interaction.outputs else ""
FirstOutputText(outputs) == IF Len(outputs) > 0 THEN outputs[1] ELSE ""
LastOutputText(outputs) == IF Len(outputs) > 0 THEN outputs[Len(outputs)] ELSE ""

GeminiHeader ==
    <<TextLine("# Google Gemini Deep Research Report"),
      TextLine("## AI Regulation Comparison (EU, US, UK, Canada)"),
      TextLine("*Generated: <time>*"),
      TextLine("*Interaction ID: <id>*"),
      TextLine("---")>>

\* the f-string of lines 189-198
GeminiReport(content) == GeminiHeader \o <<TextLine(content)>>

(* ------------------------------- state --------------------------------- *)
VARIABLES
    PERPLEXITY_API_KEY,  \* module global, line 17
    GOOGLE_API_KEY,      \* module global, line 18
    pc,                  \* where the process is
    warnings,            \* credentials main() warned about
    entered,             \* pipelines whose function was called
    called,              \* pipelines that sent a request to their provider
    response,            \* what provider A answered
    printed,             \* prompt-token figure printed by pipeline A
    perplexity_result,   \* local of main(), line 224
    gemini_result,       \* local of main(), line 225
    files,               \* names of the files present in research_results/
    perplexity_full,     \* content of perplexity_full_response.json
    perplexity_report,   \* content of perplexity_report.md
    gemini_full,         \* content of gemini_full_response.json
    gemini_report,       \* content of gemini_report.md
    interaction,         \* local of run_gemini_research
    polls,               \* calls of client.interactions.get
    sleeps,              \* calls of time.sleep(10)
    observed,            \* what each poll observed, in order
    gemini_exit,         \* how run_gemini_research ended
    crash,               \* exception that left main(), "" if none
    summary              \* the two summary lines, "" before they are printed

vars == <<PERPLEXITY_API_KEY, GOOGLE_API_KEY, pc, warnings, entered, called,
          response, printed, perplexity_result, gemini_result, files,
          perplexity_full, perplexity_report, gemini_full, gemini_report,
          interaction, polls, sleeps, observed, gemini_exit, crash, summary>>

keyVars == <<PERPLEXITY_API_KEY, GOOGLE_API_KEY>>
perplexityVars == <<response, printed, perplexity_result, perplexity_full,
                    perplexity_report>>
geminiVars == <<gemini_result, gemini_full, gemini_report, interaction, polls,
                sleeps, observed, gemini_exit>>

NoResponse == [kind |-> "none", status |-> 0, bodyKind |-> "none", body |-> EmptyBody]
NoInteraction == [status |-> "", outputs |-> <<>>]
NoneResult == [isNone |-> TRUE, value |-> EmptyBody]

PerplexityFiles == {"perplexity_full_response.json", "perplexity_report.md"}
GeminiFiles == {"gemini_full_response.json", "gemini_report.md"}

\* bool(perplexity_result), bool(gemini_result) as lines 231-232 evaluate them
PerplexityTruthy(r) == ~r.isNone /\ DictTruthy(r.value)
GeminiTruthy(r) == ~r.isNone

\* the order of the two calls in main(), lines 224-225, then the summary
NextLineGeminiFirst(line) ==
    CASE line = "start" -> "line225"
      [] line = "line225" -> "line224"
      [] line = "line224" -> "summary"
NextLine(line) ==
    CASE line = "start" -> "line224"
      [] line = "line224" -> "line225"
      [] line = "line225" -> "summary"

Init ==
    /\ PERPLEXITY_API_KEY \in KeyValues
    /\ GOOGLE_API_KEY \in KeyValues
    /\ pc = "start"
    /\ warnings = {}
    /\ entered = {}
    /\ called = {}
    /\ response = NoResponse
    /\ printed = ""
    /\ perplexity_result = NoneResult
    /\ gemini_result = [isNone |-> TRUE]
    /\ files = {}
    /\ perplexity_full = EmptyBody
    /\ perplexity_report = <<>>
    /\ gemini_full = NoInteraction
    /\ gemini_report = <<>>
    /\ interaction = NoInteraction
    /\ polls = 0
    /\ sleeps = 0
    /\ observed = <<>>
    /\ gemini_exit = ""
    /\ crash = ""
    /\ summary = [Perplexity |-> "", Gemini |-> ""]

(* ------------------------------- main ---------------------------------- *)
\* lines 213-221: banner and the two warnings
MainStart ==
    /\ pc = "start"
    /\ warnings' = {k \in {"PERPLEXITY_API_KEY"} : ~Truthy(PERPLEXITY_API_KEY)}
                   \cup {k \in {"GOOGLE_API_KEY"} : ~Truthy(GOOGLE_API_KEY)}
    /\ pc' = NextLine("start")
    /\ UNCHANGED <<keyVars, entered, called, perplexityVars, geminiVars, files,
                   crash, summary>>

\* line 224, else branch of the conditional expression
PerplexitySkip ==
    /\ pc = "line224"
    /\ ~Truthy(PERPLEXITY_API_KEY)
    /\ perplexity_result' = NoneResult
    /\ pc' = NextLine("line224")
    /\ UNCHANGED <<keyVars, warnings, entered, called, response, printed,
                   perplexity_full, perplexity_report, geminiVars, files, crash,
                   summary>>

\* run_perplexity_research returning None from the except clause, lines 107-111
PerplexityReturnsNone(resp) ==
    /\ entered' = entered \cup {"perplexity"}
    /\ called' = called \cup {"perplexity"}
    /\ response' = resp
    /\ perplexity_result' = NoneResult
    /\ pc' = NextLine("line224")
    /\ UNCHANGED <<keyVars, warnings, printed, perplexity_full, perplexity_report,
                   geminiVars, files, crash, summary>>

\* an exception that is no RequestException leaves run_perplexity_research and main
PerplexityRaises(resp, exc) ==
    /\ entered' = entered \cup {"perplexity"}
    /\ called' = called \cup {"perplexity"}
    /\ response' = resp
    /\ crash' = exc
    /\ pc' = "crashed"
    /\ UNCHANGED <<keyVars, warnings, printed, perplexity_result, perplexity_full,
                   perplexity_report, geminiVars, files, summary>>

\* line 59 raises: connection error, timeout, too many redirects
PerplexityTransportError ==
    /\ pc = "line224"
    /\ Truthy(PERPLEXITY_API_KEY)
    /\ PerplexityReturnsNone([kind |-> "transport_error", status |-> 0,
                              bodyKind |-> "none", body |-> EmptyBody])

\* line 60 raises HTTPError
PerplexityHttpError ==
    /\ pc = "line224"
    /\ Truthy(PERPLEXITY_API_KEY)
    /\ \E code \in StatusCodes :
        /\ RaisesForStatus(code)
        /\ PerplexityReturnsNone([kind |-> "http", status |-> code,
                                  bodyKind |-> "text", body |-> EmptyBody])

\* line 62 on a body that is no JSON: response.json() raises
\* requests.exceptions.JSONDecodeError, a RequestException, caught by line 107
PerplexityInvalidJson ==
    /\ pc = "line224"
    /\ Truthy(PERPLEXITY_API_KEY)
    /\ \E code \in StatusCodes :
        /\ ~RaisesForStatus(code)
        /\ PerplexityReturnsNone([kind |-> "http", status |-> code,
                                  bodyKind |-> "invalid", body |-> EmptyBody])

\* line 65 on a JSON body that is no object: list, string, number have no .get
PerplexityNonObject ==
    /\ pc = "line224"
    /\ Truthy(PERPLEXITY_API_KEY)
    /\ \E code \in StatusCodes :
        /\ ~RaisesForStatus(code)
        /\ PerplexityRaises([kind |-> "http", status |-> code,
                             bodyKind |-> "nonobject", body |-> EmptyBody],
                            "AttributeError")

\* lines 62-105 on a JSON object
PerplexityObject ==
    /\ pc = "line224"
    /\ Truthy(PERPLEXITY_API_KEY)
    /\ \E code \in StatusCodes, result \in Bodies :
        /\ ~RaisesForStatus(code)
        /\ LET resp == [kind |-> "http", status |-> code, bodyKind |-> "object",
                        body |-> result]
           IN IF ExtractRaises(result)
              THEN PerplexityRaises(resp, "IndexError")
              ELSE /\ entered' = entered \cup {"perplexity"}
                   /\ called' = called \cup {"perplexity"}
                   /\ response' = resp
                   /\ printed' = PrintedPromptTokens(result)
                   /\ files' = files \cup PerplexityFiles
                   /\ perplexity_full' = result
                   /\ perplexity_report' =
                        PerplexityReport(ExtractContent(result),
                                         ExtractSearchResults(result))
                   /\ perplexity_result' = [isNone |-> FALSE, value |-> result]
                   /\ pc' = NextLine("line224")
                   /\ UNCHANGED <<keyVars, warnings, geminiVars, crash, summary>>

(* ------------------------- run_gemini_research -------------------------- *)
\* line 225, else branch of the conditional expression
GeminiSkip ==
    /\ pc = "line225"
    /\ ~Truthy(GOOGLE_API_KEY)
    /\ gemini_result' = [isNone |-> TRUE]
    /\ pc' = NextLine("line225")
    /\ UNCHANGED <<keyVars, warnings, entered, called, perplexityVars, files,
                   gemini_full, gemini_report, interaction, polls, sleeps,
                   observed, gemini_exit, crash, summary>>

\* lines 120-128 ending with a client: the library was there, or pip installed it
GeminiClientReady ==
    /\ pc = "line225"
    /\ Truthy(GOOGLE_API_KEY)
    /\ entered' = entered \cup {"gemini"}
    /\ pc' = "g_create"
    /\ UNCHANGED <<keyVars, warnings, called, perplexityVars, geminiVars, files,
                   crash, summary>>

\* lines 120-128 raising: nothing around them catches, so main() is left.
\* CalledProcessError: pip install failed (check=True, line 126);
\* ImportError: the import of line 127 still fails;
\* ClientError: genai.Client(...) raises, lines 122 or 128
GeminiSetupRaises ==
    /\ pc = "line225"
    /\ Truthy(GOOGLE_API_KEY)
    /\ entered' = entered \cup {"gemini"}
    /\ \E exc \in {"CalledProcessError", "ImportError", "ClientError"} :
        crash' = exc
    /\ gemini_exit' = "setup_raised"
    /\ pc' = "crashed"
    /\ UNCHANGED <<keyVars, warnings, called, perplexityVars, gemini_result,
                   gemini_full, gemini_report, interaction, polls, sleeps,
                   observed, files, summary>>

\* return None of line 159 or of line 209
GeminiReturnsNone(how) ==
    /\ gemini_result' = [isNone |-> TRUE]
    /\ gemini_exit' = how
    /\ pc' = NextLine("line225")

\* lines 136-146: the interaction is created with whatever status comes first
GeminiCreate ==
    /\ pc = "g_create"
    /\ called' = called \cup {"gemini"}
    /\ \E first \in Statuses : interaction' = [status |-> first, outputs |-> <<>>]
    /\ pc' = "g_poll"
    /\ UNCHANGED <<keyVars, warnings, entered, perplexityVars, gemini_result,
                   gemini_full, gemini_report, polls, sleeps, observed,
                   gemini_exit, files, crash, summary>>

\* line 136 raises, caught by line 207
GeminiCreateRaises ==
    /\ pc = "g_create"
    /\ called' = called \cup {"gemini"}
    /\ GeminiReturnsNone("exception")
    /\ UNCHANGED <<keyVars, warnings, entered, perplexityVars, gemini_full,
                   gemini_report, interaction, polls, sleeps, observed, files,
                   crash, summary>>

\* lines 154-162: where the loop body goes on the status a poll observed
AfterPollFailedIgnored(status) ==
    CASE status = "completed" -> "break"
      [] OTHER -> "sleep"
AfterPollKnownLabelsOnly(status) ==
    CASE status = "completed" -> "break"
      [] status = "failed" -> "return"
      [] status = "in_progress" -> "sleep"
      [] OTHER -> "break"
AfterPoll(status) ==
    CASE status = "completed" -> "break"
      [] status = "failed" -> "return"
      [] OTHER -> "sleep"

\* line 151 and the branch of lines 154-161 taken on its answer
GeminiPoll ==
    /\ pc = "g_poll"
    /\ polls' = polls + 1
    /\ \E status \in Statuses, outs \in SeqUpTo(Texts, MaxOutputs) :
        /\ status \notin Terminal => Len(observed) + 1 < MaxPolls
        /\ status # "completed" => outs = <<>>
        /\ interaction' = [status |-> status, outputs |-> outs]
        /\ observed' = Append(observed, status)
        /\ CASE AfterPoll(status) = "break" ->
                    /\ pc' = "g_save"
                    /\ UNCHANGED <<gemini_result, gemini_exit>>
             [] AfterPoll(status) = "return" ->
                    GeminiReturnsNone("failed")
             [] AfterPoll(status) = "sleep" ->
                    /\ pc' = "g_sleep"
                    /\ UNCHANGED <<gemini_result, gemini_exit>>
    /\ UNCHANGED <<keyVars, warnings, entered, called, perplexityVars,
                   gemini_full, gemini_report, sleeps, files, crash, summary>>

\* line 151 raises, caught by line 207
GeminiPollRaises ==
    /\ pc = "g_poll"
    /\ polls' = polls + 1
    /\ observed' = Append(observed, "<raised>")
    /\ GeminiReturnsNone("exception")
    /\ UNCHANGED <<keyVars, warnings, entered, called, perplexityVars,
                   gemini_full, gemini_report, interaction, sleeps, files, crash,
                   summary>>

\* line 162, then back to the top of the loop
GeminiSleep ==
    /\ pc = "g_sleep"
    /\ sleeps' = sleeps + 1
    /\ pc' = "g_poll"
    /\ UNCHANGED <<keyVars, warnings, entered, called, perplexityVars,
                   gemini_result, gemini_full, gemini_report, interaction, polls,
                   observed, gemini_exit, files, crash, summary>>

\* lines 164-205: extract, write both files, return the interaction
GeminiSave ==
    /\ pc = "g_save"
    /\ files' = files \cup GeminiFiles
    /\ gemini_full' = interaction
    /\ gemini_report' = GeminiReport(LastOutputText(interaction.outputs))
    /\ gemini_result' = [isNone |-> FALSE]
    /\ gemini_exit' = "returned"
    /\ pc' = NextLine("line225")
    /\ UNCHANGED <<keyVars, warnings, entered, called, perplexityVars,
                   interaction, polls, sleeps, observed, crash, summary>>

(* ------------------------------ summary --------------------------------- *)
SummaryWord(truthy) == IF truthy THEN "Completed" ELSE "Failed or skipped"

\* lines 228-233
Summary ==
    /\ pc = "summary"
    /\ summary' = [Perplexity |-> SummaryWord(PerplexityTruthy(perplexity_result)),
                   Gemini |-> SummaryWord(GeminiTruthy(gemini_result))]
    /\ pc' = "done"
    /\ UNCHANGED <<keyVars, warnings, entered, called, perplexityVars, geminiVars,
                   files, crash>>

Next ==
    \/ MainStart
    \/ PerplexitySkip
    \/ PerplexityTransportError
    \/ PerplexityHttpError
    \/ PerplexityInvalidJson
    \/ PerplexityNonObject
    \/ PerplexityObject
    \/ GeminiSkip
    \/ GeminiClientReady
    \/ GeminiSetupRaises
    \/ GeminiCreate
    \/ GeminiCreateRaises
    \/ GeminiPoll
    \/ GeminiPollRaises
    \/ GeminiSleep
    \/ GeminiSave
    \/ Summary

Spec == Init /\ [][Next]_vars

(* ------------------------------ helpers --------------------------------- *)
Last(seq) == seq[Len(seq)]
InLoop == pc \in {"g_poll", "g_sleep"}
\* main() has evaluated line 224 / line 225
PerplexityDecided == pc \notin {"start", "line224"}
GeminiDecided ==
    \/ pc \in {"g_create", "g_poll", "g_sleep", "g_save", "summary", "done"}
    \/ gemini_exit = "setup_raised"
IsSourceLine(l) == l.num # 0
\* a credential that is unset or empty
Absent(k) == k \in {NoneKey, ""}

(* ------------------------------- claims --------------------------------- *)

\* C1: a pipeline whose credential is unset or empty is never entered, sends
\* nothing to its provider, writes no artifact and leaves 'no result'; once
\* main() has evaluated the line of a pipeline, that pipeline was entered
\* exactly if its credential is present; no exception that leaves main()
\* comes from a pipeline whose credential is missing.
C1_CredentialGating ==
    /\ Absent(PERPLEXITY_API_KEY) =>
          /\ "perplexity" \notin entered \cup called
          /\ files \cap PerplexityFiles = {}
          /\ perplexity_result.isNone
          /\ crash \notin {"AttributeError", "IndexError"}
    /\ Absent(GOOGLE_API_KEY) =>
          /\ "gemini" \notin entered \cup called
          /\ files \cap GeminiFiles = {}
          /\ gemini_result.isNone
          /\ gemini_exit = ""
    /\ PerplexityDecided => ("perplexity" \in entered <=> ~Absent(PERPLEXITY_API_KEY))
    /\ GeminiDecided => ("gemini" \in entered <=> ~Absent(GOOGLE_API_KEY))
    /\ (Absent(PERPLEXITY_API_KEY) /\ Absent(GOOGLE_API_KEY)) => pc # "crashed"

C1_Witness ==
    /\ pc = "done"
    /\ PERPLEXITY_API_KEY = "secret"
    /\ GOOGLE_API_KEY = ""
    /\ entered = {"perplexity"}
    /\ files = PerplexityFiles
    /\ warnings = {"GOOGLE_API_KEY"}

\* C2: main() always ends at the summary with both summary lines printed,
\* whatever the two pipelines met.
C2_AlwaysReachesSummary ==
    pc \in {"done", "crashed"} =>
        /\ pc = "done"
        /\ summary.Perplexity # ""
        /\ summary.Gemini # ""

\* C3: after a network-layer error or a status outside 200..299,
\* run_perplexity_research has returned None without an exception and neither
\* of its two files exists.
C3_ErrorGivesNoResult ==
    (\/ response.kind = "transport_error"
     \/ (response.kind = "http" /\ ~(200 <= response.status /\ response.status < 300)))
    => /\ crash = ""
       /\ perplexity_result.isNone
       /\ files \cap PerplexityFiles = {}

\* C4: when the polls observed n non-terminal statuses and then 'completed',
\* exactly n+1 polls and n sleeps were made, no sleep follows the terminal
\* poll, and the pipeline then writes gemini_report.md holding the text of the
\* last output and returns a result.
C4_PollsThenReport ==
    /\ pc = "g_sleep" =>
          /\ Len(observed) > 0
          /\ Last(observed) \notin Terminal
          /\ sleeps = Len(observed) - 1
    /\ (/\ Len(observed) > 0
        /\ Last(observed) = "completed"
        /\ \A i \in 1..(Len(observed) - 1) : observed[i] \notin Terminal)
       => /\ polls = Len(observed)
          /\ sleeps = Len(observed) - 1
          /\ \/ pc = "g_save"
             \/ /\ gemini_exit = "returned"
                /\ ~gemini_result.isNone
                /\ "gemini_report.md" \in files
                /\ Len(interaction.outputs) > 0 =>
                     \E j \in 1..Len(gemini_report) :
                        gemini_report[j] =
                            TextLine(interaction.outputs[Len(interaction.outputs)])

C4_Witness ==
    /\ gemini_exit = "returned"
    /\ observed = <<"in_progress", "in_progress", "completed">>
    /\ polls = 3
    /\ sleeps = 2
    /\ interaction.outputs = <<"notes", "REPORT">>
    /\ \E j \in 1..Len(gemini_report) : gemini_report[j] = TextLine("REPORT")

\* C5: once a poll has observed 'failed', the pipeline has returned None: no
\* poll and no sleep follow that poll, nothing was raised and neither gemini
\* file exists.
C5_FailedReturnsAtOnce ==
    (Len(observed) > 0 /\ Last(observed) = "failed")
    => /\ pc \notin {"g_poll", "g_sleep", "g_save", "crashed"}
       /\ gemini_exit = "failed"
       /\ gemini_result.isNone
       /\ polls = Len(observed)
       /\ sleeps = Len(observed) - 1
       /\ files \cap GeminiFiles = {}
       /\ crash = ""

C5_Witness ==
    /\ pc = "done"
    /\ observed = <<"in_progress", "failed">>
    /\ polls = 2
    /\ sleeps = 1
    /\ summary.Gemini = "Failed or skipped"

\* C6: the report written for a response with content c and search_results
\* s1..sk holds c verbatim, then exactly k source lines; line i is numbered i
\* and carries the title and the url of s_i.
C6_ReportContentAndSources ==
    "perplexity_report.md" \in files =>
        LET result == response.body
            sr == IF result.hasSearchResults THEN result.search_results ELSE <<>>
            lines == SelectSeq(perplexity_report, IsSourceLine)
        IN /\ Len(lines) = Len(sr)
           /\ \A i \in 1..Len(sr) :
                /\ lines[i].num = i
                /\ sr[i].hasTitle => lines[i].text = sr[i].title
                /\ sr[i].hasUrl => lines[i].url = sr[i].url
           /\ (/\ result.hasChoices
               /\ result.choices[1].hasMessage
               /\ result.choices[1].hasContent)
              => \E j \in 1..Len(perplexity_report) :
                    /\ perplexity_report[j] = TextLine(result.choices[1].content)
                    /\ \A m \in 1..Len(perplexity_report) :
                          IsSourceLine(perplexity_report[m]) => m > j

C6_Witness ==
    /\ "perplexity_report.md" \in files
    /\ response.body.hasChoices
    /\ response.body.choices[1].hasContent
    /\ Len(response.body.search_results) = 2
    /\ response.body.search_results[1].hasTitle
    /\ ~response.body.search_results[2].hasTitle
    /\ Len(perplexity_report) = 9

\* C7: after a non-error status with a JSON object body, extraction has not
\* failed and both files of pipeline A are written, whichever fields miss.
C7_DefensiveExtraction ==
    (/\ response.kind = "http"
     /\ ~RaisesForStatus(response.status)
     /\ response.bodyKind = "object")
    => /\ crash = ""
       /\ PerplexityFiles \subseteq files

\* C8 as stated: the poll loop is left only after a poll that observed
\* 'completed' or 'failed'.
C8_LeftOnlyOnTerminal ==
    (polls > 0 /\ ~InLoop) => Last(observed) \in Terminal

\* C8 as amended: the poll loop is left only after a poll that observed
\* 'completed' or 'failed' or that raised; after every other observation the
\* pipeline sleeps and polls again.
C8_LeftOnTerminalOrException ==
    /\ (polls > 0 /\ ~InLoop) => Last(observed) \in Terminal \cup {"<raised>"}
    /\ (polls > 0 /\ Last(observed) \notin Terminal \cup {"<raised>"}) =>
          \/ pc = "g_sleep" /\ sleeps = polls - 1
          \/ pc = "g_poll" /\ sleeps = polls
    /\ (polls > 0 /\ Last(observed) = "<raised>") =>
          /\ gemini_exit = "exception"
          /\ gemini_result.isNone

C8_Witness ==
    /\ gemini_exit = "exception"
    /\ observed = <<"requires_action", "in_progress", "<raised>">>
    /\ sleeps = 2
    /\ pc = "done"

\* C9: when the install of provider B's library fails, pipeline A is already
\* over (entered exactly if its credential is present), and the failing step
\* leaves A's result and A's two artifacts as they were.
C9_InstallFailureLeavesPerplexity ==
    /\ [](crash = "CalledProcessError" =>
            /\ "perplexity" \in entered <=> ~Absent(PERPLEXITY_API_KEY)
            /\ "perplexity" \in entered => response.kind # "none")
    /\ [][crash' = "CalledProcessError" =>
            /\ UNCHANGED perplexityVars
            /\ files' \cap PerplexityFiles = files \cap PerplexityFiles]_vars

C9_Witness ==
    /\ crash = "CalledProcessError"
    /\ PerplexityFiles \subseteq files
    /\ ~perplexity_result.isNone
    /\ Len(perplexity_report) > 7

\* C10: at the summary a provider's line says 'Completed' exactly if its
\* report file was written, 'Failed or skipped' exactly if it was not.
C10_SummaryMatchesReports ==
    pc = "done" =>
        /\ summary.Perplexity = "Completed" <=> "perplexity_report.md" \in files
        /\ summary.Perplexity = "Failed or skipped" <=> "perplexity_report.md" \notin files
        /\ summary.Gemini = "Completed" <=> "gemini_report.md" \in files
        /\ summary.Gemini = "Failed or skipped" <=> "gemini_report.md" \notin files

====
